---- MODULE Spec2Model ----
(***************************************************************************)
(* Model of the sheet-polled trailing-order bots of ibkr-gsheet-bot:       *)
(*   src/src/v3_trailing_orders.py  (variant "v3", per-profile)            *)
(*   src/src/trailing_orders_v2.py  (variant "v2", single profile)         *)
(*   src/src/trailing_orders.py     (variant "bot", TrailingStopBot.run)   *)
(* The main thread (main / run_cycle, TrailingStopBot.run) is modelled     *)
(* step by step with a program counter; the gateway thread (app.run)       *)
(* delivers nextValidId and the orderStatus events.  The broker gateway,   *)
(* the sheet and the clock are the environment: a call to them either      *)
(* returns or raises, and the content of the sheet is an input.            *)
(*                                                                         *)
(* Specifications:                                                         *)
(*   Spec     main of v2 and v3 on every feed of up to MaxRows rows        *)
(*   SpecRow  the same on the feeds of one row and of valid rows only      *)
(*   SpecGw   main and the orderStatus callback on a feed of one row       *)
(*   SpecBot  TrailingStopBot.run, beside main on a feed of one row        *)
(*   SpecProfile  main of v3 on rows of its own and of another profile     *)
(*                                                                         *)
(* Numbers.  A Python float is the record [nan, v]; v is an integer in a   *)
(* unit fixed by the context: parsed cells are in hundredths (a price in   *)
(* cents, a percentage in 1/100 %), products of a price and a percentage   *)
(* are in 1e-6 dollars, rounded results are in cents.                      *)
(***************************************************************************)
EXTENDS Integers, Sequences, FiniteSets, TLC

VARIABLES variant, feed, pc, halt, connected, idSent, nextOrderId, cycle, i,
          plan, oid, placeCalls, live, active, errors, alerts, cancels,
          faults, now, lastOca, events, gw, handled,
          records, emailOn, attempt, j, success, botOrders, alertCalls,
          summaries

vars == <<variant, feed, pc, halt, connected, idSent, nextOrderId, cycle, i,
          plan, oid, placeCalls, live, active, errors, alerts, cancels,
          faults, now, lastOca, events, gw, handled,
          records, emailOn, attempt, j, success, botOrders, alertCalls,
          summaries>>

(***************************************************************************)
(* Bounds of the model.                                                    *)
(***************************************************************************)
MaxRows == 2
MaxCycles == 2
MaxFaults == 1
MaxEvents == 1
FirstOrderId == 1

\* self.nextOrderId = None
NoneId == -1

(***************************************************************************)
(* Strings: str.strip, str.upper, str.lower, str.isalpha on ASCII text.    *)
(***************************************************************************)
LowerLetters == "abcdefghijklmnopqrstuvwxyz"
UpperLetters == "ABCDEFGHIJKLMNOPQRSTUVWXYZ"
Digits == "0123456789"

CharAt(s, k) == SubSeq(s, k, k)

\* position of the one-character string c in s, 0 when absent
IndexIn(c, s) ==
    IF \E k \in 1..Len(s) : CharAt(s, k) = c
    THEN CHOOSE k \in 1..Len(s) : CharAt(s, k) = c
    ELSE 0

UpperChar(c) ==
    IF IndexIn(c, LowerLetters) > 0
    THEN CharAt(UpperLetters, IndexIn(c, LowerLetters)) ELSE c

LowerChar(c) ==
    IF IndexIn(c, UpperLetters) > 0
    THEN CharAt(LowerLetters, IndexIn(c, UpperLetters)) ELSE c

RECURSIVE Upper(_)
Upper(s) == IF s = "" THEN "" ELSE UpperChar(CharAt(s, 1)) \o Upper(Tail(s))

RECURSIVE Lower(_)
Lower(s) == IF s = "" THEN "" ELSE LowerChar(CharAt(s, 1)) \o Lower(Tail(s))

RECURSIVE LStrip(_)
LStrip(s) == IF s # "" /\ CharAt(s, 1) = " " THEN LStrip(Tail(s)) ELSE s

RECURSIVE RStrip(_)
RStrip(s) ==
    IF s # "" /\ CharAt(s, Len(s)) = " "
    THEN RStrip(SubSeq(s, 1, Len(s) - 1)) ELSE s

Strip(s) == RStrip(LStrip(s))

IsLetter(c) == IndexIn(c, LowerLetters) > 0 \/ IndexIn(c, UpperLetters) > 0

IsAlpha(s) == s # "" /\ \A k \in 1..Len(s) : IsLetter(CharAt(s, k))

IsDigits(s) == s # "" /\ \A k \in 1..Len(s) : IndexIn(CharAt(s, k), Digits) > 0

RECURSIVE DigitsValue(_)
DigitsValue(s) ==
    IF s = "" THEN 0
    ELSE 10 * DigitsValue(SubSeq(s, 1, Len(s) - 1))
         + (IndexIn(CharAt(s, Len(s)), Digits) - 1)

(***************************************************************************)
(* int(cell) and float(cell).  A result is [ok, nan, v]; ok = FALSE is the *)
(* ValueError.  The cells of the model are written as                      *)
(* [spaces][sign]digits[.d[d]][spaces] or as nan, which is the grammar     *)
(* parsed here; float gives v in hundredths.                               *)
(***************************************************************************)
Num(v) == [ok |-> TRUE, nan |-> FALSE, v |-> v]
NaN == [ok |-> TRUE, nan |-> TRUE, v |-> 0]
ParseError == [ok |-> FALSE, nan |-> FALSE, v |-> 0]

HasSign(s) == s # "" /\ CharAt(s, 1) \in {"-", "+"}
Unsigned(s) == IF HasSign(s) THEN Tail(s) ELSE s
SignOf(s) == IF s # "" /\ CharAt(s, 1) = "-" THEN -1 ELSE 1

ParseInt(cell) ==
    LET s == Strip(cell)
        u == Unsigned(s)
    IN IF IsDigits(u) THEN Num(SignOf(s) * DigitsValue(u)) ELSE ParseError

ParseFloat(cell) ==
    LET s == Strip(cell)
        u == Unsigned(s)
        dot == IndexIn(".", u)
        whole == IF dot = 0 THEN u ELSE SubSeq(u, 1, dot - 1)
        frac == IF dot = 0 THEN "" ELSE SubSeq(u, dot + 1, Len(u))
        frac2 == IF Len(frac) = 0 THEN "00"
                 ELSE IF Len(frac) = 1 THEN frac \o "0" ELSE frac
    IN IF Lower(u) = "nan" THEN NaN
       ELSE IF /\ whole = "" \/ IsDigits(whole)
               /\ frac = "" \/ IsDigits(frac)
               /\ whole # "" \/ frac # ""
               /\ Len(frac) <= 2
            THEN Num(SignOf(s) * (100 * DigitsValue(whole) + DigitsValue(frac2)))
            ELSE ParseError

(***************************************************************************)
(* Float arithmetic and comparison: every comparison with nan is false,    *)
(* every operation on nan gives nan.                                       *)
(***************************************************************************)
Flt(v) == [nan |-> FALSE, v |-> v]
FltNaN == [nan |-> TRUE, v |-> 0]
FLe(a, b) == ~a.nan /\ ~b.nan /\ a.v <= b.v
FLt(a, b) == ~a.nan /\ ~b.nan /\ a.v < b.v
FGt(a, b) == ~a.nan /\ ~b.nan /\ a.v > b.v
FGe(a, b) == ~a.nan /\ ~b.nan /\ a.v >= b.v

\* round(x, 2) of x given in 1e-6 dollars, in cents; a tie goes to the even
\* cent (the double nearest to a decimal tie may lie on either side of it).
\* round(nan, 2) is nan.
Round2(x) ==
    IF x.nan THEN FltNaN
    ELSE LET q == x.v \div 10000
             r == x.v % 10000
         IN Flt(IF r < 5000 THEN q
                ELSE IF r > 5000 THEN q + 1
                ELSE IF q % 2 = 0 THEN q ELSE q + 1)

(***************************************************************************)
(* The instruction feed: rows[0] is the header, the others are data rows,  *)
(* each a list of string cells.                                            *)
(***************************************************************************)
Profile == "P"

Header == <<" Profile", "SYMBOL ", "Qty", "Trigger Price", "trailing %", "stop %", "tif">>
HeaderNoProfile == <<"account", "symbol", "qty", "trigger price", "trailing %", "stop %", "tif">>
HeaderNoStop == <<"profile", "symbol", "qty", "trigger price", "trailing %", "stop", "tif">>
Headers == {Header, HeaderNoProfile, HeaderNoStop}

RowSell == <<"P", "AAPL", "10", "100", "5", "3", "GTC">>
RowBuy == <<" P ", " msft ", "-5", "50.5", "2.5", "3", "DAY">>
RowStopZero == <<"P", "AAPL", "10", "100", "5", "0", "GTC">>
RowNaN == <<"P", "IBM", "10", "nan", "5", "3", "GTC">>
RowQtyZero == <<"P", "AAPL", "0", "100", "5", "3", "GTC">>
RowOther == <<"Q", "A 1", "x">>
RowForeign == <<" Q", "AAPL", "10", "100", "5", "3", "GTC">>
RowPool == {RowSell, RowBuy, RowStopZero, RowNaN, RowQtyZero, RowOther, RowForeign}

RECURSIVE SeqsUpTo(_, _)
SeqsUpTo(S, n) ==
    IF n = 0 THEN {<<>>}
    ELSE LET shorter == SeqsUpTo(S, n - 1)
         IN shorter \cup {Append(q, x) : q \in {t \in shorter : Len(t) = n - 1}, x \in S}

\* what sheets.values().get(...).execute().get('values', []) can return
Feeds == {<<>>} \cup {<<h>> \o rs : h \in Headers, rs \in SeqsUpTo(RowPool, MaxRows)}

(***************************************************************************)
(* run_cycle's header map: headers = [h.strip().lower() ...],              *)
(* idx = {h: i ...} (for a repeated name the last column wins).            *)
(***************************************************************************)
HeaderName(h) == Lower(Strip(h))

\* idx[name], as a 1-based position; 0 when name is not a key of idx
Idx(hdr, name) ==
    LET ks == {k \in 1..Len(hdr) : HeaderName(hdr[k]) = name}
    IN IF ks = {} THEN 0 ELSE CHOOSE k \in ks : \A m \in ks : m <= k

RequiredV3 == {"symbol", "qty", "trigger price", "trailing %", "stop %", "tif", "profile"}
RequiredV2 == {"symbol", "qty", "trigger price", "trailing %", "stop %", "tif"}
Required(v) == IF v = "v3" THEN RequiredV3 ELSE RequiredV2

MissingColumnsNever(v, hdr) == FALSE
MissingColumns(v, hdr) == \E r \in Required(v) : Idx(hdr, r) = 0

\* row[idx[name]] raises IndexError when the row is too short
HasCell(row, hdr, name) == Idx(hdr, name) \in 1..Len(row)
Cell(row, hdr, name) == row[Idx(hdr, name)]

(***************************************************************************)
(* validate_row (v3) and the parse block of run_cycle (v2).  The result is *)
(* [ok, sym, qty, trigger, trail_pct, stop_pct, tif]; ok = FALSE stands    *)
(* for the exception raised (ValueError, IndexError).                      *)
(***************************************************************************)
NoValues ==
    [ok |-> FALSE, sym |-> "", qty |-> 0, trigger |-> FltNaN,
     trail_pct |-> FltNaN, stop_pct |-> FltNaN, tif |-> ""]

AsFloat(n) == [nan |-> n.nan, v |-> n.v]

PctOutOfRange(p) == FLt(p, Flt(0)) \/ FGt(p, Flt(10000))

Values(sym, row, hdr) ==
    [ok |-> TRUE, sym |-> sym,
     qty |-> ParseInt(Cell(row, hdr, "qty")).v,
     trigger |-> AsFloat(ParseFloat(Cell(row, hdr, "trigger price"))),
     trail_pct |-> AsFloat(ParseFloat(Cell(row, hdr, "trailing %"))),
     stop_pct |-> AsFloat(ParseFloat(Cell(row, hdr, "stop %"))),
     tif |-> Cell(row, hdr, "tif")]

AllCells(row, hdr) ==
    \A c \in RequiredV2 : HasCell(row, hdr, c)

Parses(row, hdr) ==
    /\ ParseInt(Cell(row, hdr, "qty")).ok
    /\ ParseFloat(Cell(row, hdr, "trigger price")).ok
    /\ ParseFloat(Cell(row, hdr, "trailing %")).ok
    /\ ParseFloat(Cell(row, hdr, "stop %")).ok

validate_row(row, hdr) ==
    IF ~AllCells(row, hdr) THEN NoValues
    ELSE LET sym == Upper(Strip(Cell(row, hdr, "symbol")))
             w == Values(sym, row, hdr)
         IN IF ~IsAlpha(sym) THEN NoValues
            ELSE IF ~ParseInt(Cell(row, hdr, "qty")).ok THEN NoValues
            ELSE IF w.qty = 0 THEN NoValues
            ELSE IF ~ParseFloat(Cell(row, hdr, "trigger price")).ok THEN NoValues
            ELSE IF FLe(w.trigger, Flt(0)) THEN NoValues
            ELSE IF ~ParseFloat(Cell(row, hdr, "trailing %")).ok THEN NoValues
            ELSE IF ~ParseFloat(Cell(row, hdr, "stop %")).ok THEN NoValues
            ELSE IF PctOutOfRange(w.trail_pct) \/ PctOutOfRange(w.stop_pct)
                 THEN NoValues
            ELSE w

\* trailing_orders_v2.py: sym = row[...].upper(), int(), float(), no checks
parse_row_v2(row, hdr) ==
    IF AllCells(row, hdr) /\ Parses(row, hdr)
    THEN Values(Upper(Cell(row, hdr, "symbol")), row, hdr)
    ELSE NoValues

(***************************************************************************)
(* Plan arithmetic of run_cycle, in 1e-6 dollars:                          *)
(*   avg_price = trigger; trail_amt = avg_price*trail_pct/100;             *)
(*   stop_price = avg_price*(1 - stop_pct/100).                            *)
(***************************************************************************)
FMulPct(price, pct) ==
    IF price.nan \/ pct.nan THEN FltNaN ELSE Flt(price.v * pct.v)

TrailAmt(w) == FMulPct(w.trigger, w.trail_pct)

StopPrice_added(w) ==
    IF w.stop_pct.nan THEN FltNaN
    ELSE FMulPct(w.trigger, Flt(10000 + w.stop_pct.v))

StopPrice(w) ==
    IF w.stop_pct.nan THEN FltNaN
    ELSE FMulPct(w.trigger, Flt(10000 - w.stop_pct.v))

TriggerMicro(w) == IF w.trigger.nan THEN FltNaN ELSE Flt(w.trigger.v * 10000)

FSub(a, b) == IF a.nan \/ b.nan THEN FltNaN ELSE Flt(a.v - b.v)

Abs(n) == IF n < 0 THEN -n ELSE n

(***************************************************************************)
(* build_orders: the trail leg and the stop leg of one plan.               *)
(***************************************************************************)
Leg(action, q, kind, aux, lmt, tif, oca) ==
    [action |-> action, totalQuantity |-> q, orderType |-> kind,
     auxPrice |-> aux, lmt |-> lmt, tif |-> tif, ocaGroup |-> oca, ocaType |-> 1]

build_orders_stop_signed(qty, trigger_price, trail_amt, stop_price, tif, oca_group) ==
    LET action == IF qty > 0 THEN "SELL" ELSE "BUY"
    IN << Leg(action, Abs(qty), "TRAIL LIMIT", Round2(trail_amt),
              Round2(FSub(FSub(trigger_price, trail_amt), stop_price)),
              tif, oca_group),
          Leg(IF qty >= 0 THEN "SELL" ELSE "BUY", qty, "STP LMT",
              Round2(stop_price), Round2(stop_price), tif, oca_group) >>

build_orders(qty, trigger_price, trail_amt, stop_price, tif, oca_group) ==
    LET action == IF qty > 0 THEN "SELL" ELSE "BUY"
        qty_abs == Abs(qty)
    IN << Leg(action, qty_abs, "TRAIL LIMIT", Round2(trail_amt),
              Round2(FSub(FSub(trigger_price, trail_amt), stop_price)),
              tif, oca_group),
          Leg(action, qty_abs, "STP LMT",
              Round2(stop_price), Round2(stop_price), tif, oca_group) >>

(***************************************************************************)
(* The pure steps of run_cycle on every header and row of the feed,        *)
(* evaluated once.                                                         *)
(***************************************************************************)
Variants == {"v2", "v3"}

\* any(r not in idx for r in required)
MissingOf == [v \in Variants |-> [h \in Headers |-> MissingColumns(v, h)]]

\* row_profile = row[idx['profile']].strip(); ok = FALSE is the IndexError
ProfileOf ==
    [h \in Headers |-> [r \in RowPool |->
        IF HasCell(r, h, "profile")
        THEN [ok |-> TRUE, s |-> Strip(Cell(r, h, "profile"))]
        ELSE [ok |-> FALSE, s |-> ""]]]

ValidatedOf == [h \in Headers |-> [r \in RowPool |-> validate_row(r, h)]]

ParsedOf == [h \in Headers |-> [r \in RowPool |-> parse_row_v2(r, h)]]

\* the suffix random.randint(0, 999) of the group id: its two extremes
RandInts == {0, 999}

\* f"OCA_{profile}_{sym}_{int(time.time())}_{random.randint(0,999)}"
\* (v2 has no profile part)
OcaGroup(v, sym, t, r) ==
    [profile |-> IF v = "v3" THEN Profile ELSE "", sym |-> sym, t |-> t, r |-> r]

NoPlan == [sym |-> "", qty |-> 0, legs |-> <<>>]

\* no plan was submitted yet
NoOca == [profile |-> "", sym |-> "", t |-> -1, r |-> -1]

(***************************************************************************)
(* trailing_orders.py: the records of the sheet (get_all_records: one dict *)
(* per row, keyed by the header cells), validate_row and create_order.     *)
(* A cell is its text; float(cell) is ParseFloat.                          *)
(***************************************************************************)
max_retries == 3

Rec(sym, qty, avg, trail, off) ==
    [k \in {"Symbol", "Quantity", "Avg Price", "Trailing %", "Limit Offset %"} |->
        CASE k = "Symbol" -> sym
          [] k = "Quantity" -> qty
          [] k = "Avg Price" -> avg
          [] k = "Trailing %" -> trail
          [] OTHER -> off]

RecSell == Rec("AAPL", "10", "100", "5", "1")
RecBuy == Rec("MSFT", "-5", "50.5", "2.5", "0")
RecZeroTrail == Rec("IBM", "10", "100", "0", "1")
RecNegAvg == Rec("IBM", "10", "-100", "5", "1")
RecShort == [k \in {"Symbol", "Quantity"} |-> IF k = "Symbol" THEN "IBM" ELSE "x"]
RecPool == {RecSell, RecBuy, RecZeroTrail, RecNegAvg, RecShort}

\* what sheet.get_all_records() can return
BotFeeds == SeqsUpTo(RecPool, MaxRows)

required_fields == {"Symbol", "Quantity", "Avg Price", "Trailing %", "Limit Offset %"}

\* TrailingStopBot.validate_row
bot_validate_row(row) ==
    IF ~(required_fields \subseteq DOMAIN row) THEN FALSE
    ELSE LET qty == ParseFloat(row["Quantity"])
             avg_price == ParseFloat(row["Avg Price"])
             trail_pct == ParseFloat(row["Trailing %"])
             limit_offset == ParseFloat(row["Limit Offset %"])
         IN IF ~(qty.ok /\ avg_price.ok /\ trail_pct.ok /\ limit_offset.ok) THEN FALSE
            ELSE IF ~qty.nan /\ qty.v = 0 THEN FALSE
            ELSE IF FLe(AsFloat(trail_pct), Flt(0)) \/ FLt(AsFloat(limit_offset), Flt(0))
                 THEN FALSE
            ELSE TRUE

NoOrder == [ok |-> FALSE, action |-> "", totalQuantity |-> 0, auxPrice |-> FltNaN]

\* TrailingStopBot.create_order of a validated row; ok = FALSE is None.
\* trigger_price = round(avg_price * (1 + trail_pct/100), 2), in cents
create_order(row) ==
    LET qty == AsFloat(ParseFloat(row["Quantity"]))
        avg_price == AsFloat(ParseFloat(row["Avg Price"]))
        trail_pct == AsFloat(ParseFloat(row["Trailing %"]))
        action == IF FGt(qty, Flt(0)) THEN "SELL" ELSE "BUY"
        trigger_price ==
            IF trail_pct.nan THEN FltNaN
            ELSE Round2(FMulPct(avg_price, Flt(10000 + trail_pct.v)))
    IN IF action = "SELL" /\ FLt(trigger_price, avg_price) THEN NoOrder
       ELSE [ok |-> TRUE, action |-> action, totalQuantity |-> Abs(qty.v),
             auxPrice |-> trigger_price]

BotValidOf == [r \in RecPool |-> bot_validate_row(r)]

BotOrderOf == [r \in RecPool |-> IF BotValidOf[r] THEN create_order(r) ELSE NoOrder]

(***************************************************************************)
(* State after module load: nothing connected, nothing placed.  The sheet  *)
(* content and the script run are the inputs.                              *)
(*   placeCalls, cancels  the placeOrder / cancelOrder calls made          *)
(*   live, active         the rows appended to RANGE_LIVE / RANGE_ACTIVE   *)
(*   errors               the logging.error records of run_cycle           *)
(*   alerts               the send_telegram / send_email calls             *)
(*   halt                 how main ended                                   *)
(*   faults               the calls that raised so far                     *)
(*   lastOca              the group id of the last plan whose trail leg    *)
(*                        was placed and whose row is over                 *)
(*   events               the orderStatus events delivered so far          *)
(*   handled              the (orderId, status) of each of them, in order  *)
(*   records, emailOn     bot: the sheet's records, [EMAIL] enabled        *)
(*   attempt              bot: the failed connect attempts of connect_ibkr *)
(*   j, success           bot: process_orders' row and success_count       *)
(*   botOrders            bot: the ib.placeOrder calls that returned       *)
(*   alertCalls           bot: the send_alert calls                        *)
(*   summaries            bot: the "Order summary" records of the log       *)
(*   gw                   "raised" once an exception has left a callback   *)
(*                        into the gateway thread's loop                   *)
(***************************************************************************)
Start ==
    /\ halt = "none"
    /\ connected = FALSE
    /\ idSent = FALSE
    /\ nextOrderId = NoneId
    /\ cycle = 1
    /\ i = 0
    /\ plan = NoPlan
    /\ oid = NoneId
    /\ placeCalls = <<>>
    /\ live = <<>>
    /\ active = <<>>
    /\ errors = {}
    /\ alerts = <<>>
    /\ cancels = <<>>
    /\ faults = 0
    /\ now = 0
    /\ lastOca = NoOca
    /\ events = 0
    /\ handled = <<>>
    /\ gw = "running"
    /\ attempt = 0
    /\ j = 0
    /\ success = 0
    /\ botOrders = <<>>
    /\ alertCalls = <<>>
    /\ summaries = <<>>

\* v3_trailing_orders.py or trailing_orders_v2.py is run on a sheet
Init ==
    /\ Start
    /\ variant \in Variants
    /\ feed \in Feeds
    /\ records = <<>>
    /\ emailOn = FALSE
    /\ pc = "connect"

CanFail == faults < MaxFaults

Logs == <<placeCalls, live, active, errors, alerts, cancels>>

\* the state of the gateway thread's callbacks
gwVars == <<events, gw, handled>>

\* the state of TrailingStopBot (trailing_orders.py)
botVars == <<records, emailOn, attempt, j, success, botOrders, alertCalls,
            summaries>>

\* the state of main, run_cycle and IBApp (v2, v3) that TrailingStopBot
\* does not have
mainVars == <<feed, idSent, nextOrderId, i, plan, oid, now, lastOca>>

\* the row's frame is left: the group id of its plan, when the trail leg was
\* placed (oid is set), is the last one submitted
LeavePlan ==
    lastOca' = IF oid # NoneId THEN plan.legs[1].ocaGroup ELSE lastOca

(***************************************************************************)
(* main, up to the polling loop.                                           *)
(***************************************************************************)
\* app.connect(IB_HOST, IB_PORT, IB_CLIENT_ID) returns
ConnectOk ==
    /\ pc = "connect"
    /\ connected' = TRUE
    /\ pc' = "wait_id"
    /\ UNCHANGED <<variant, feed, halt, idSent, nextOrderId, cycle, i, plan, oid,
                   faults, now>>
    /\ UNCHANGED <<Logs, lastOca>>
    /\ UNCHANGED <<gwVars, botVars>>

\* app.connect raises: v3 logs and returns, v2 lets the exception end main
ConnectFails ==
    /\ pc = "connect"
    /\ CanFail
    /\ faults' = faults + 1
    /\ pc' = "done"
    /\ halt' = IF variant = "v3" THEN "connect_failed" ELSE "raised_connect"
    /\ UNCHANGED <<variant, feed, connected, idSent, nextOrderId, cycle, i, plan,
                   oid, now>>
    /\ UNCHANGED <<Logs, lastOca>>
    /\ UNCHANGED <<gwVars, botVars>>

\* IBApp.nextValidId, on the gateway thread, once per connection
NextValidId ==
    /\ variant \in Variants
    /\ connected
    /\ ~idSent
    /\ pc # "done"
    /\ idSent' = TRUE
    /\ nextOrderId' = FirstOrderId
    /\ UNCHANGED <<variant, feed, pc, halt, connected, cycle, i, plan, oid, faults,
                   now>>
    /\ UNCHANGED <<Logs, lastOca>>
    /\ UNCHANGED <<gwVars, botVars>>

StartLoop_unguarded ==
    /\ pc = "wait_id"
    /\ pc' = "cycle"
    /\ UNCHANGED <<variant, feed, halt, connected, idSent, nextOrderId, cycle, i,
                   plan, oid, faults, now>>
    /\ UNCHANGED <<Logs, lastOca>>
    /\ UNCHANGED <<gwVars, botVars>>

\* while app.nextOrderId is None: time.sleep(0.1)
StartLoop ==
    /\ pc = "wait_id"
    /\ nextOrderId # NoneId
    /\ pc' = "cycle"
    /\ UNCHANGED <<variant, feed, halt, connected, idSent, nextOrderId, cycle, i,
                   plan, oid, faults, now>>
    /\ UNCHANGED <<Logs, lastOca>>
    /\ UNCHANGED <<gwVars, botVars>>

(***************************************************************************)
(* run_cycle.                                                              *)
(***************************************************************************)
ErrorAt(where) == [cycle |-> cycle, row |-> i, at |-> where]

\* the exception raised by the call `what` leaves run_cycle and main's try
\* block (it is no KeyboardInterrupt): the finally clause runs and main ends
Escapes(what) ==
    /\ pc' = "finally"
    /\ halt' = what
    /\ i' = 0
    /\ plan' = NoPlan
    /\ oid' = NoneId
    /\ LeavePlan

\* rows = read_planner(sheets); the two early returns
ReadPlannerOk ==
    /\ pc = "cycle"
    /\ IF Len(feed) < 2
       THEN /\ pc' = "sleep"
            /\ UNCHANGED <<i, errors>>
       ELSE IF MissingOf[variant][feed[1]]
       THEN /\ pc' = "sleep"
            /\ errors' = errors \cup {[cycle |-> cycle, row |-> 0, at |-> "columns"]}
            /\ UNCHANGED i
       ELSE /\ pc' = "row"
            /\ i' = 2
            /\ UNCHANGED errors
    /\ UNCHANGED <<variant, feed, halt, connected, idSent, nextOrderId, cycle, plan,
                   oid, placeCalls, live, active, alerts, cancels, faults, now,
                   lastOca>>
    /\ UNCHANGED <<gwVars, botVars>>

\* read_planner raises (sheet unreachable)
ReadPlannerFails ==
    /\ pc = "cycle"
    /\ CanFail
    /\ faults' = faults + 1
    /\ Escapes("raised_read_planner")
    /\ UNCHANGED <<variant, feed, connected, idSent, nextOrderId, cycle, now>>
    /\ UNCHANGED Logs
    /\ UNCHANGED <<gwVars, botVars>>

\* the for loop moves to the next row, or run_cycle returns
NextRow ==
    /\ i' = IF i + 1 > Len(feed) THEN 0 ELSE i + 1
    /\ pc' = IF i + 1 > Len(feed) THEN "sleep" ELSE "row"
    /\ plan' = NoPlan
    /\ oid' = NoneId
    /\ LeavePlan

\* except Exception as e: logging.error(f"Row error: {e}")
RowError(where) ==
    /\ errors' = errors \cup {ErrorAt(where)}
    /\ NextRow

MakePlan(w, r) ==
    [sym |-> w.sym, qty |-> w.qty,
     legs |-> build_orders(w.qty, TriggerMicro(w), TrailAmt(w), StopPrice(w),
                           w.tif, OcaGroup(variant, w.sym, now, r))]

RowBeginV3_unfiltered ==
    /\ pc = "row"
    /\ variant = "v3"
    /\ LET row == feed[i]
           hdr == feed[1]
       IN IF ~ProfileOf[hdr][row].ok
          THEN RowError("profile")
          ELSE IF ~ValidatedOf[hdr][row].ok
          THEN RowError("validate")
          ELSE /\ \E r \in RandInts : plan' = MakePlan(ValidatedOf[hdr][row], r)
               /\ pc' = "place_trail"
               /\ UNCHANGED <<i, oid, errors, lastOca>>
    /\ UNCHANGED <<variant, feed, halt, connected, idSent, nextOrderId, cycle,
                   placeCalls, live, active, alerts, cancels, faults, now>>
    /\ UNCHANGED <<gwVars, botVars>>

\* v3, lines 243-251: profile filter, validate_row, plan
RowBeginV3 ==
    /\ pc = "row"
    /\ variant = "v3"
    /\ LET row == feed[i]
           hdr == feed[1]
       IN IF ~ProfileOf[hdr][row].ok
          THEN RowError("profile")
          ELSE IF ProfileOf[hdr][row].s # Profile
          THEN NextRow /\ UNCHANGED errors
          ELSE IF ~ValidatedOf[hdr][row].ok
          THEN RowError("validate")
          ELSE /\ \E r \in RandInts : plan' = MakePlan(ValidatedOf[hdr][row], r)
               /\ pc' = "place_trail"
               /\ UNCHANGED <<i, oid, errors, lastOca>>
    /\ UNCHANGED <<variant, feed, halt, connected, idSent, nextOrderId, cycle,
                   placeCalls, live, active, alerts, cancels, faults, now>>
    /\ UNCHANGED <<gwVars, botVars>>

\* v2, lines 190-206: parse (a parse error skips the row), plan
RowBeginV2 ==
    /\ pc = "row"
    /\ variant = "v2"
    /\ LET row == feed[i]
           hdr == feed[1]
       IN IF ~ParsedOf[hdr][row].ok
          THEN RowError("parse")
          ELSE /\ \E r \in RandInts : plan' = MakePlan(ParsedOf[hdr][row], r)
               /\ pc' = "place_trail"
               /\ UNCHANGED <<i, oid, errors, lastOca>>
    /\ UNCHANGED <<variant, feed, halt, connected, idSent, nextOrderId, cycle,
                   placeCalls, live, active, alerts, cancels, faults, now>>
    /\ UNCHANGED <<gwVars, botVars>>

\* one app.placeOrder(id, contract, order) call: order is the leg of the
\* current plan; ok = FALSE when the call raised
PlaceCall(id, leg, ok) ==
    [id |-> id, leg |-> leg, row |-> i, cycle |-> cycle, ok |-> ok]

\* a placeOrder, logging or append call of the row raises: v3 catches it
\* in the row's except clause, v2 has no handler around it
RowRaises(where) ==
    IF variant = "v3"
    THEN RowError(where) /\ UNCHANGED halt
    ELSE /\ Escapes(IF where \in {"trail", "stop"}
                    THEN "raised_placeOrder" ELSE "raised_append")
         /\ UNCHANGED errors

\* oid = app.nextOrderId; app.placeOrder(oid, contract, trail);
\* app.nextOrderId += 1
PlaceTrailOk ==
    /\ pc = "place_trail"
    /\ oid' = nextOrderId
    /\ placeCalls' = Append(placeCalls, PlaceCall(nextOrderId, "trail", TRUE))
    /\ nextOrderId' = nextOrderId + 1
    /\ pc' = "place_stop"
    /\ UNCHANGED <<variant, feed, halt, connected, idSent, cycle, i, plan, live,
                   active, errors, alerts, cancels, faults, now, lastOca>>
    /\ UNCHANGED <<gwVars, botVars>>

PlaceTrailFails ==
    /\ pc = "place_trail"
    /\ CanFail
    /\ faults' = faults + 1
    /\ placeCalls' = Append(placeCalls, PlaceCall(nextOrderId, "trail", FALSE))
    /\ RowRaises("trail")
    /\ UNCHANGED <<variant, feed, connected, idSent, nextOrderId, cycle, live,
                   active, alerts, cancels, now>>
    /\ UNCHANGED <<gwVars, botVars>>

\* oid2 = app.nextOrderId; app.placeOrder(oid2, contract, stop);
\* app.nextOrderId += 1
PlaceStopOk ==
    /\ pc = "place_stop"
    /\ placeCalls' = Append(placeCalls, PlaceCall(nextOrderId, "stop", TRUE))
    /\ nextOrderId' = nextOrderId + 1
    /\ pc' = "append_live"
    /\ UNCHANGED <<variant, feed, halt, connected, idSent, cycle, i, plan, oid,
                   live, active, errors, alerts, cancels, faults, now, lastOca>>
    /\ UNCHANGED <<gwVars, botVars>>

PlaceStopFails_swallowed ==
    /\ pc = "place_stop"
    /\ CanFail
    /\ faults' = faults + 1
    /\ placeCalls' = Append(placeCalls, PlaceCall(nextOrderId, "stop", FALSE))
    /\ pc' = "append_live"
    /\ UNCHANGED <<variant, feed, halt, connected, idSent, nextOrderId, cycle, i,
                   plan, oid, live, active, errors, alerts, cancels, now, lastOca>>
    /\ UNCHANGED <<gwVars, botVars>>

PlaceStopFails ==
    /\ pc = "place_stop"
    /\ CanFail
    /\ faults' = faults + 1
    /\ placeCalls' = Append(placeCalls, PlaceCall(nextOrderId, "stop", FALSE))
    /\ RowRaises("stop")
    /\ UNCHANGED <<variant, feed, connected, idSent, nextOrderId, cycle, live,
                   active, alerts, cancels, now>>
    /\ UNCHANGED <<gwVars, botVars>>

\* the append of [ts, profile, sym, qty, 'PLACED', oid] to RANGE_LIVE
AppendLiveOk ==
    /\ pc = "append_live"
    /\ live' = Append(live, [cycle |-> cycle, row |-> i, sym |-> plan.sym,
                             qty |-> plan.qty, status |-> "PLACED", oid |-> oid])
    /\ pc' = "append_active"
    /\ UNCHANGED <<variant, feed, halt, connected, idSent, nextOrderId, cycle, i,
                   plan, oid, placeCalls, active, errors, alerts, cancels, faults,
                   now, lastOca>>
    /\ UNCHANGED <<gwVars, botVars>>

AppendLiveFails ==
    /\ pc = "append_live"
    /\ CanFail
    /\ faults' = faults + 1
    /\ RowRaises("append_live")
    /\ UNCHANGED <<variant, feed, connected, idSent, nextOrderId, cycle,
                   placeCalls, live, active, alerts, cancels, now>>
    /\ UNCHANGED <<gwVars, botVars>>

\* the append of [ts, profile, sym, qty, 'OCA', oca] to RANGE_ACTIVE (the
\* group id written is the plan's ocaGroup; the log keeps the other cells)
AppendActiveOk ==
    /\ pc = "append_active"
    /\ active' = Append(active, [cycle |-> cycle, row |-> i, sym |-> plan.sym,
                                 qty |-> plan.qty, status |-> "OCA"])
    /\ NextRow
    /\ UNCHANGED <<variant, feed, halt, connected, idSent, nextOrderId, cycle,
                   placeCalls, live, errors, alerts, cancels, faults, now>>
    /\ UNCHANGED <<gwVars, botVars>>

AppendActiveFails ==
    /\ pc = "append_active"
    /\ CanFail
    /\ faults' = faults + 1
    /\ RowRaises("append_active")
    /\ UNCHANGED <<variant, feed, connected, idSent, nextOrderId, cycle,
                   placeCalls, live, active, alerts, cancels, now>>
    /\ UNCHANGED <<gwVars, botVars>>

(***************************************************************************)
(* main's loop, interruption and the finally clause.                       *)
(***************************************************************************)
\* time.sleep(SYNC_INTERVAL), then the next run_cycle
Sleep ==
    /\ pc = "sleep"
    /\ cycle < MaxCycles
    /\ cycle' = cycle + 1
    /\ now' = now + 1
    /\ pc' = "cycle"
    /\ UNCHANGED <<variant, feed, halt, connected, idSent, nextOrderId, i, plan,
                   oid, faults>>
    /\ UNCHANGED <<Logs, lastOca>>
    /\ UNCHANGED <<gwVars, botVars>>

InTry == {"cycle", "row", "place_trail", "place_stop", "append_live",
          "append_active", "sleep"}

\* KeyboardInterrupt inside main's try block: except KeyboardInterrupt
KeyboardInterrupt ==
    /\ pc \in InTry
    /\ pc' = "finally"
    /\ halt' = "interrupt"
    /\ i' = 0
    /\ plan' = NoPlan
    /\ oid' = NoneId
    /\ LeavePlan
    /\ UNCHANGED <<variant, feed, connected, idSent, nextOrderId, cycle, faults,
                   now>>
    /\ UNCHANGED Logs
    /\ UNCHANGED <<gwVars, botVars>>

\* KeyboardInterrupt before main's try block (app.connect, the wait for
\* nextValidId, get_sheets_service): nothing catches it and no finally
\* clause runs, main ends with the traceback
InterruptAtStartup ==
    /\ pc \in {"connect", "wait_id"}
    /\ pc' = "done"
    /\ halt' = "interrupt_startup"
    /\ UNCHANGED <<variant, feed, connected, idSent, nextOrderId, cycle, i, plan,
                   oid, faults, now, lastOca>>
    /\ UNCHANGED Logs
    /\ UNCHANGED <<gwVars, botVars>>

\* finally: app.disconnect() (the bot: if self.ib.isConnected():
\* self.ib.disconnect())
Finally ==
    /\ pc = "finally"
    /\ connected' = FALSE
    /\ pc' = "done"
    /\ UNCHANGED <<variant, feed, halt, idSent, nextOrderId, cycle, i, plan, oid,
                   faults, now>>
    /\ UNCHANGED <<Logs, lastOca>>
    /\ UNCHANGED <<gwVars, botVars>>

(***************************************************************************)
(* IBApp.orderStatus, run by the gateway thread for every status event the *)
(* gateway sends: events of the orders this program placed and of orders   *)
(* it did not place (ForeignId).  The handler is one step: its sheet       *)
(* append and its two alert calls.                                         *)
(***************************************************************************)
\* an order id this program never passes to placeOrder
ForeignId == 0

Statuses == {"Submitted", "Filled"}

PlacedIds == {placeCalls[k].id : k \in {m \in 1..Len(placeCalls) : placeCalls[m].ok}}

\* the gateway thread runs callbacks while the process and the connection
\* are up
Delivers ==
    /\ connected
    /\ pc # "done"
    /\ events < MaxEvents

\* one call orderStatus(orderId, status, filled, ...)
Event(orderId, status) == [id |-> orderId, status |-> status]

\* the row [timestamp, profile, orderId, status, filled] in RANGE_LIVE
StatusRow(orderId, status) ==
    [cycle |-> 0, row |-> 0, sym |-> "", qty |-> 0, status |-> status, oid |-> orderId]

\* if status == 'Filled': send_telegram(msg); send_email(subject, msg);
\* each call catches its own failure (ok = FALSE) and logs it
Notify(orderId, status, tOk, eOk) ==
    IF status = "Filled"
    THEN /\ alerts' = alerts \o << [to |-> "telegram", id |-> orderId, ok |-> tOk],
                                   [to |-> "email", id |-> orderId, ok |-> eOk] >>
         /\ faults' = faults + (IF tOk THEN 0 ELSE 1) + (IF eOk THEN 0 ELSE 1)
         /\ faults' <= MaxFaults
    ELSE /\ tOk /\ eOk
         /\ UNCHANGED <<alerts, faults>>

OrderStatusV3_cancels ==
    /\ variant = "v3"
    /\ Delivers
    /\ \E orderId \in PlacedIds \cup {ForeignId}, status \in Statuses, tOk, eOk \in BOOLEAN :
          /\ live' = Append(live, StatusRow(orderId, status))
          /\ Notify(orderId, status, tOk, eOk)
          /\ handled' = Append(handled, Event(orderId, status))
          /\ cancels' = IF status = "Filled" THEN Append(cancels, orderId) ELSE cancels
    /\ events' = events + 1
    /\ UNCHANGED <<variant, feed, pc, halt, connected, idSent, nextOrderId, cycle, i,
                   plan, oid, placeCalls, active, errors, now, lastOca, gw>>
    /\ UNCHANGED botVars

\* v3: the append to RANGE_LIVE returns, then the alerts of a fill
OrderStatusV3 ==
    /\ variant = "v3"
    /\ Delivers
    /\ \E orderId \in PlacedIds \cup {ForeignId}, status \in Statuses, tOk, eOk \in BOOLEAN :
          /\ live' = Append(live, StatusRow(orderId, status))
          /\ Notify(orderId, status, tOk, eOk)
          /\ handled' = Append(handled, Event(orderId, status))
    /\ events' = events + 1
    /\ UNCHANGED <<variant, feed, pc, halt, connected, idSent, nextOrderId, cycle, i,
                   plan, oid, placeCalls, active, errors, cancels, now, lastOca, gw>>
    /\ UNCHANGED botVars

\* v3: get_sheets_service() or the append raises; nothing in orderStatus
\* catches it, the exception leaves the callback
OrderStatusV3Raises ==
    /\ variant = "v3"
    /\ Delivers
    /\ CanFail
    /\ \E orderId \in PlacedIds \cup {ForeignId}, status \in Statuses :
          handled' = Append(handled, Event(orderId, status))
    /\ faults' = faults + 1
    /\ events' = events + 1
    /\ gw' = "raised"
    /\ UNCHANGED <<variant, feed, pc, halt, connected, idSent, nextOrderId, cycle, i,
                   plan, oid, now, lastOca>>
    /\ UNCHANGED Logs
    /\ UNCHANGED botVars

\* v2: no sheet row, only the alerts of a fill
OrderStatusV2 ==
    /\ variant = "v2"
    /\ Delivers
    /\ \E orderId \in PlacedIds \cup {ForeignId}, status \in Statuses, tOk, eOk \in BOOLEAN :
          /\ Notify(orderId, status, tOk, eOk)
          /\ handled' = Append(handled, Event(orderId, status))
    /\ events' = events + 1
    /\ UNCHANGED <<variant, feed, pc, halt, connected, idSent, nextOrderId, cycle, i,
                   plan, oid, placeCalls, live, active, errors, cancels, now, lastOca,
                   gw>>
    /\ UNCHANGED botVars

(***************************************************************************)
(* trailing_orders.py: TrailingStopBot.run, step by step.                  *)
(***************************************************************************)
\* send_alert(subject, body): the mail goes out only when [EMAIL] enabled
\* is set and the SMTP calls return; a failure is caught and logged
AlertCall(subject, sent) == [subject |-> subject, sent |-> sent]

Sent == IF emailOn THEN BOOLEAN ELSE {FALSE}

\* connect_ibkr: self.ib.connect(...) returns: return True
BotConnectOk ==
    /\ pc = "bot_connect"
    /\ connected' = TRUE
    /\ pc' = "bot_sheets"
    /\ UNCHANGED <<variant, halt, cycle, faults, records, emailOn, attempt, j,
                   success, botOrders, alertCalls>>
    /\ UNCHANGED <<mainVars, Logs, gwVars, summaries>>

BotConnectFails_one_more ==
    /\ pc = "bot_connect"
    /\ attempt' = attempt + 1
    /\ IF attempt + 1 <= max_retries
       THEN UNCHANGED <<pc, halt, alertCalls>>
       ELSE /\ \E sent \in Sent :
                 alertCalls' = Append(alertCalls, AlertCall("IBKR Connection Failed", sent))
            /\ pc' = "finally"
            /\ halt' = "bot_connect_failed"
    /\ UNCHANGED <<variant, connected, cycle, faults, records, emailOn, j, success,
                   botOrders>>
    /\ UNCHANGED <<mainVars, Logs, gwVars, summaries>>

\* connect_ibkr: self.ib.connect(...) raises: the attempt is logged; after
\* the last one send_alert, return False, and run returns
BotConnectFails ==
    /\ pc = "bot_connect"
    /\ attempt' = attempt + 1
    /\ IF attempt + 1 < max_retries
       THEN UNCHANGED <<pc, halt, alertCalls>>
       ELSE /\ \E sent \in Sent :
                 alertCalls' = Append(alertCalls, AlertCall("IBKR Connection Failed", sent))
            /\ pc' = "finally"
            /\ halt' = "bot_connect_failed"
    /\ UNCHANGED <<variant, connected, cycle, faults, records, emailOn, j, success,
                   botOrders>>
    /\ UNCHANGED <<mainVars, Logs, gwVars, summaries>>

\* init_google_sheets returns
BotSheetsOk ==
    /\ pc = "bot_sheets"
    /\ pc' = "bot_fetch"
    /\ UNCHANGED <<variant, halt, connected, cycle, faults>>
    /\ UNCHANGED <<mainVars, Logs, gwVars, botVars>>

\* init_google_sheets: the key file is missing or authorize raises:
\* sys.exit(1); SystemExit passes run's except clause, finally runs
BotSheetsFails ==
    /\ pc = "bot_sheets"
    /\ CanFail
    /\ faults' = faults + 1
    /\ pc' = "finally"
    /\ halt' = "sys_exit"
    /\ UNCHANGED <<variant, connected, cycle>>
    /\ UNCHANGED <<mainVars, Logs, gwVars, botVars>>

\* process_orders goes to row k, or past the last row to its summary
BotToRow(k) ==
    /\ j' = IF k > Len(records) THEN 0 ELSE k
    /\ pc' = IF k > Len(records) THEN "bot_summary" ELSE "bot_row"

\* rows = self.get_sheet_data() returns; process_orders starts
BotFetchOk ==
    /\ pc = "bot_fetch"
    /\ BotToRow(1)
    /\ success' = 0
    /\ UNCHANGED <<variant, halt, connected, cycle, faults, records, emailOn,
                   attempt, botOrders, alertCalls>>
    /\ UNCHANGED <<mainVars, Logs, gwVars, summaries>>

BotFetchFails_escapes ==
    /\ pc = "bot_fetch"
    /\ CanFail
    /\ faults' = faults + 1
    /\ \E s1 \in Sent :
          alertCalls' = Append(alertCalls, AlertCall("Google Sheets Error", s1))
    /\ pc' = "finally"
    /\ halt' = "raised_fetch"
    /\ UNCHANGED <<variant, connected, cycle, records, emailOn, attempt, j,
                   success, botOrders>>
    /\ UNCHANGED <<mainVars, Logs, gwVars, summaries>>

\* get_sheet_data raises: it alerts and re-raises; run's inner except
\* clause alerts again and sleeps 60 s
BotFetchFails ==
    /\ pc = "bot_fetch"
    /\ CanFail
    /\ faults' = faults + 1
    /\ \E s1, s2 \in Sent :
          alertCalls' = alertCalls \o << AlertCall("Google Sheets Error", s1),
                                        AlertCall("Processing Error", s2) >>
    /\ pc' = "bot_sleep"
    /\ UNCHANGED <<variant, halt, connected, cycle, records, emailOn, attempt, j,
                   success, botOrders>>
    /\ UNCHANGED <<mainVars, Logs, gwVars, summaries>>

\* process_orders: validate_row and create_order of row j
BotRow ==
    /\ pc = "bot_row"
    /\ IF BotValidOf[records[j]] /\ BotOrderOf[records[j]].ok
       THEN pc' = "bot_place" /\ UNCHANGED j
       ELSE BotToRow(j + 1)
    /\ UNCHANGED <<variant, halt, connected, cycle, faults, records, emailOn,
                   attempt, success, botOrders, alertCalls>>
    /\ UNCHANGED <<mainVars, Logs, gwVars, summaries>>

\* trade = self.ib.placeOrder(contract, order); success_count += 1
BotPlaceOk ==
    /\ pc = "bot_place"
    /\ botOrders' = Append(botOrders, [cycle |-> cycle, row |-> j,
                                       order |-> BotOrderOf[records[j]]])
    /\ success' = success + 1
    /\ BotToRow(j + 1)
    /\ UNCHANGED <<variant, halt, connected, cycle, faults, records, emailOn,
                   attempt, alertCalls>>
    /\ UNCHANGED <<mainVars, Logs, gwVars, summaries>>

\* placeOrder raises: "Order failed for ..." is logged
BotPlaceFails ==
    /\ pc = "bot_place"
    /\ CanFail
    /\ faults' = faults + 1
    /\ BotToRow(j + 1)
    /\ UNCHANGED <<variant, halt, connected, cycle, records, emailOn, attempt,
                   success, botOrders, alertCalls>>
    /\ UNCHANGED <<mainVars, Logs, gwVars, summaries>>

\* f"Order summary: {success_count} succeeded, {len(rows) - success_count} failed"
Summary == [cycle |-> cycle, succeeded |-> success, failed |-> Len(records) - success]

BotSummary_on_zero ==
    /\ pc = "bot_summary"
    /\ summaries' = Append(summaries, Summary)
    /\ IF success = 0
       THEN \E sent \in Sent :
               alertCalls' = Append(alertCalls, AlertCall("Partial Order Completion", sent))
       ELSE UNCHANGED alertCalls
    /\ success' = 0
    /\ pc' = "bot_sleep"
    /\ UNCHANGED <<variant, halt, connected, cycle, faults, records, emailOn,
                   attempt, j, botOrders>>
    /\ UNCHANGED <<mainVars, Logs, gwVars>>

\* the end of process_orders: the summary is logged;
\* if success_count < len(rows): send_alert
BotSummary ==
    /\ pc = "bot_summary"
    /\ summaries' = Append(summaries, Summary)
    /\ IF success < Len(records)
       THEN \E sent \in Sent :
               alertCalls' = Append(alertCalls, AlertCall("Partial Order Completion", sent))
       ELSE UNCHANGED alertCalls
    /\ success' = 0
    /\ pc' = "bot_sleep"
    /\ UNCHANGED <<variant, halt, connected, cycle, faults, records, emailOn,
                   attempt, j, botOrders>>
    /\ UNCHANGED <<mainVars, Logs, gwVars>>

\* time.sleep(sleep_time), or time.sleep(60) after an error; next round
BotSleep ==
    /\ pc = "bot_sleep"
    /\ cycle < MaxCycles
    /\ cycle' = cycle + 1
    /\ pc' = "bot_fetch"
    /\ UNCHANGED <<variant, halt, connected, faults>>
    /\ UNCHANGED <<mainVars, Logs, gwVars, botVars>>

InRun == {"bot_connect", "bot_sheets", "bot_fetch", "bot_row", "bot_place",
          "bot_summary", "bot_sleep"}

\* KeyboardInterrupt anywhere in run's try block: "Shutdown requested"
BotInterrupt ==
    /\ pc \in InRun
    /\ pc' = "finally"
    /\ halt' = "interrupt"
    /\ j' = 0
    /\ success' = 0
    /\ UNCHANGED <<variant, connected, cycle, faults, records, emailOn, attempt,
                   botOrders, alertCalls>>
    /\ UNCHANGED <<mainVars, Logs, gwVars, summaries>>

Next ==
    \/ ConnectOk
    \/ ConnectFails
    \/ NextValidId
    \/ StartLoop
    \/ ReadPlannerOk
    \/ ReadPlannerFails
    \/ RowBeginV3
    \/ RowBeginV2
    \/ PlaceTrailOk
    \/ PlaceTrailFails
    \/ PlaceStopOk
    \/ PlaceStopFails
    \/ AppendLiveOk
    \/ AppendLiveFails
    \/ AppendActiveOk
    \/ AppendActiveFails
    \/ Sleep
    \/ KeyboardInterrupt
    \/ InterruptAtStartup
    \/ Finally

Spec == Init /\ [][Next]_vars

(***************************************************************************)
(* main on the feeds of one row of any kind and on the feeds of valid rows *)
(* only.                                                                   *)
(***************************************************************************)
RowFeeds ==
    {<<h, r>> : h \in Headers, r \in RowPool}
        \cup {<<h>> \o rs : h \in Headers, rs \in SeqsUpTo({RowSell, RowBuy}, MaxRows)}

InitRow == Init /\ feed \in RowFeeds

SpecRow == InitRow /\ [][Next]_vars

(***************************************************************************)
(* The two threads together, on a feed of one valid row.                   *)
(***************************************************************************)
GwFeeds == {<<Header, RowSell>>}

InitGw == Init /\ feed \in GwFeeds

NextGw ==
    \/ ConnectOk
    \/ ConnectFails
    \/ NextValidId
    \/ StartLoop
    \/ ReadPlannerOk
    \/ ReadPlannerFails
    \/ RowBeginV3
    \/ RowBeginV2
    \/ PlaceTrailOk
    \/ PlaceTrailFails
    \/ PlaceStopOk
    \/ PlaceStopFails
    \/ AppendLiveOk
    \/ AppendLiveFails
    \/ AppendActiveOk
    \/ AppendActiveFails
    \/ Sleep
    \/ KeyboardInterrupt
    \/ InterruptAtStartup
    \/ Finally
    \/ OrderStatusV3
    \/ OrderStatusV3Raises
    \/ OrderStatusV2

SpecGw == InitGw /\ [][NextGw]_vars

(***************************************************************************)
(* The three scripts: trailing_orders.py on the records of its sheet, v2   *)
(* and v3 on a feed of one valid row.                                      *)
(***************************************************************************)
InitBot ==
    /\ Start
    /\ \/ /\ variant \in Variants
          /\ feed \in GwFeeds
          /\ records = <<>>
          /\ emailOn = FALSE
          /\ pc = "connect"
       \/ /\ variant = "bot"
          /\ feed = <<>>
          /\ records \in BotFeeds
          /\ emailOn \in BOOLEAN
          /\ pc = "bot_connect"

NextBot ==
    \/ ConnectOk
    \/ ConnectFails
    \/ NextValidId
    \/ StartLoop
    \/ ReadPlannerOk
    \/ ReadPlannerFails
    \/ RowBeginV3
    \/ RowBeginV2
    \/ PlaceTrailOk
    \/ PlaceTrailFails
    \/ PlaceStopOk
    \/ PlaceStopFails
    \/ AppendLiveOk
    \/ AppendLiveFails
    \/ AppendActiveOk
    \/ AppendActiveFails
    \/ Sleep
    \/ KeyboardInterrupt
    \/ InterruptAtStartup
    \/ Finally
    \/ BotConnectOk
    \/ BotConnectFails
    \/ BotSheetsOk
    \/ BotSheetsFails
    \/ BotFetchOk
    \/ BotFetchFails
    \/ BotRow
    \/ BotPlaceOk
    \/ BotPlaceFails
    \/ BotSummary
    \/ BotSleep
    \/ BotInterrupt

SpecBot == InitBot /\ [][NextBot]_vars

(***************************************************************************)
(* v3_trailing_orders.py --profile P on a sheet that holds rows of P and   *)
(* rows of another profile, well-formed and malformed.                     *)
(***************************************************************************)
ProfileFeeds ==
    {<<Header>> \o rs : rs \in SeqsUpTo({RowSell, RowForeign, RowOther}, MaxRows)}

InitProfile == Init /\ variant = "v3" /\ feed \in ProfileFeeds

NextV3 ==
    \/ ConnectOk
    \/ ConnectFails
    \/ NextValidId
    \/ StartLoop
    \/ ReadPlannerOk
    \/ ReadPlannerFails
    \/ RowBeginV3
    \/ PlaceTrailOk
    \/ PlaceTrailFails
    \/ PlaceStopOk
    \/ PlaceStopFails
    \/ AppendLiveOk
    \/ AppendLiveFails
    \/ AppendActiveOk
    \/ AppendActiveFails
    \/ Sleep
    \/ KeyboardInterrupt
    \/ InterruptAtStartup
    \/ Finally

SpecProfile == InitProfile /\ [][NextV3]_vars

(***************************************************************************)
(* Vocabulary of the properties.                                           *)
(***************************************************************************)
Calls == 1..Len(placeCalls)

HeaderOf == feed[1]

\* the seven columns the feed interface requires
FeedColumns == {"profile", "symbol", "qty", "trigger price", "trailing %", "stop %", "tif"}

LacksColumn(hdr, cols) ==
    \E c \in cols : \A k \in 1..Len(hdr) : Lower(Strip(hdr[k])) # c

LacksOf == [h \in Headers |-> LacksColumn(h, FeedColumns)]
LacksButProfileOf == [h \in Headers |-> LacksColumn(h, FeedColumns \ {"profile"})]

\* nothing was placed or appended, and no data row was looked at
CycleAborted ==
    /\ placeCalls = <<>>
    /\ live = <<>>
    /\ active = <<>>
    /\ \A e \in errors : e.at = "columns"

\* the validator rules, read off the cells of a row
RuleHolds(row, hdr) ==
    /\ \A c \in FeedColumns \ {"profile"} : HasCell(row, hdr, c)
    /\ IsAlpha(Upper(Strip(Cell(row, hdr, "symbol"))))
    /\ LET q == ParseInt(Cell(row, hdr, "qty"))
           t == ParseFloat(Cell(row, hdr, "trigger price"))
           a == ParseFloat(Cell(row, hdr, "trailing %"))
           b == ParseFloat(Cell(row, hdr, "stop %"))
       IN /\ q.ok /\ q.v # 0
          /\ t.ok /\ ~t.nan /\ t.v > 0
          /\ a.ok /\ ~a.nan /\ a.v >= 0 /\ a.v <= 10000
          /\ b.ok /\ ~b.nan /\ b.v >= 0 /\ b.v <= 10000

RuleHoldsOf == [h \in Headers |-> [r \in RowPool |-> RuleHolds(r, h)]]

\* a sell-side row the validation gate rejects: stopPrice >= p or
\* triggerPrice < p, with p the reference price (avg_price = trigger)
GateRejects(w) ==
    /\ w.ok
    /\ w.qty > 0
    /\ \/ FGe(StopPrice(w), TriggerMicro(w))
       \/ FLt(TriggerMicro(w), TriggerMicro(w))

GateRejectsOf == [h \in Headers |-> [r \in RowPool |-> GateRejects(parse_row_v2(r, h))]]

\* the handling of the row of call k is over (its cycle is, or the loop
\* moved on, or main left the loop)
RowOver(k) ==
    \/ placeCalls[k].cycle < cycle
    \/ placeCalls[k].row # i
    \/ pc \in {"sleep", "finally", "done"}

CancelsOf(id) == {k \in 1..Len(cancels) : cancels[k] = id}

\* row r passes the profile filter and the checks of the running script
Submittable(r) ==
    IF variant = "v3"
    THEN /\ ProfileOf[HeaderOf][feed[r]].ok
         /\ ProfileOf[HeaderOf][feed[r]].s = Profile
         /\ ValidatedOf[HeaderOf][feed[r]].ok
    ELSE ParsedOf[HeaderOf][feed[r]].ok

CycleOver(c) == c < cycle \/ (c = cycle /\ pc = "sleep")

(***************************************************************************)
(* C1.  Idempotent submission: while the feed keeps returning the same row,*)
(* placeOrder is called for a leg of that row in one polling cycle only; a *)
(* later cycle never places a leg of a row whose legs were submitted.      *)
(***************************************************************************)
C1_SubmittedOnce ==
    \A a, b \in Calls :
        (/\ a < b
         /\ placeCalls[a].ok
         /\ placeCalls[a].row = placeCalls[b].row
         /\ placeCalls[a].leg = placeCalls[b].leg)
        => placeCalls[a].cycle = placeCalls[b].cycle

(***************************************************************************)
(* C2.  Partial-failure compensation: when the trail leg was placed and    *)
(* the placeOrder of the stop leg of the same row fails, exactly one       *)
(* cancelOrder is issued for the trail leg's id and no PLACED row is       *)
(* appended for the instruction.                                           *)
(***************************************************************************)
C2_CompensatingCancel ==
    \A k \in Calls :
        (/\ placeCalls[k].leg = "stop"
         /\ ~placeCalls[k].ok
         /\ RowOver(k))
        => /\ Cardinality(CancelsOf(placeCalls[k - 1].id)) = 1
           /\ \A m \in 1..Len(live) :
                 ~(live[m].cycle = placeCalls[k].cycle /\ live[m].row = placeCalls[k].row)

(***************************************************************************)
(* C3.  When the placeOrder of the trail leg of a row fails, the stop leg  *)
(* of that row is not submitted, the error is recorded and an alert is     *)
(* sent.                                                                   *)
(***************************************************************************)
C3_TrailFailure ==
    \A k \in Calls :
        (/\ placeCalls[k].leg = "trail"
         /\ ~placeCalls[k].ok
         /\ RowOver(k))
        => /\ \A m \in Calls :
                 ~(/\ placeCalls[m].leg = "stop"
                   /\ placeCalls[m].cycle = placeCalls[k].cycle
                   /\ placeCalls[m].row = placeCalls[k].row)
           /\ [cycle |-> placeCalls[k].cycle, row |-> placeCalls[k].row,
               at |-> "trail"] \in errors
           /\ alerts # <<>>

(***************************************************************************)
(* C4.  Validation gate: no order is placed for a sell-side row (qty > 0)  *)
(* whose stop price p*(1 - stopPct/100) is >= the reference price p or     *)
(* whose trigger price is < p.                                             *)
(***************************************************************************)
C4_ValidationGate ==
    \A k \in Calls : ~GateRejectsOf[HeaderOf][feed[placeCalls[k].row]]

(***************************************************************************)
(* C5.  A failed read of the feed does not end the engine: the exception   *)
(* of read_planner never takes main out of the polling loop (the cycle of  *)
(* the failed read is given up and the next one runs).                     *)
(***************************************************************************)
C5_FeedErrorSurvived ==
    halt = "raised_read_planner" => pc \notin {"finally", "done"}

(***************************************************************************)
(* C6 (as stated).  A header that lacks one of profile, symbol, qty,       *)
(* trigger price, trailing %, stop %, tif aborts the cycle: no order, no   *)
(* audit row, whatever the data rows hold.                                 *)
(***************************************************************************)
C6_AnyOfSevenMissing ==
    (Len(feed) >= 1 /\ LacksOf[HeaderOf]) => CycleAborted

(***************************************************************************)
(* C6 (amended).  v3_trailing_orders.py aborts the cycle when one of the   *)
(* seven columns is missing; trailing_orders_v2.py does so when one of     *)
(* symbol, qty, trigger price, trailing %, stop %, tif is missing (it has  *)
(* no profile column).                                                     *)
(***************************************************************************)
C6_MissingColumnAborts ==
    /\ (variant = "v3" /\ Len(feed) >= 1 /\ LacksOf[HeaderOf]) => CycleAborted
    /\ (variant = "v2" /\ Len(feed) >= 1 /\ LacksButProfileOf[HeaderOf]) => CycleAborted

C6_Witness ==
    /\ Len(feed) >= 2
    /\ LacksOf[HeaderOf]
    /\ RowSell \in {feed[k] : k \in 2..Len(feed)}
    /\ (variant = "v2" => LacksButProfileOf[HeaderOf])
    /\ cycle = 2
    /\ pc = "sleep"
    /\ [cycle |-> 2, row |-> 0, at |-> "columns"] \in errors

(***************************************************************************)
(* C7.  A row-level error skips only that row: an exception raised while   *)
(* a row is handled never ends the loop, and when a cycle with a failed    *)
(* row has run to its end, every later row that passes the checks was      *)
(* submitted in that cycle.                                                *)
(***************************************************************************)
C7_RowErrorSkipsOnlyThatRow ==
    /\ halt \notin {"raised_placeOrder", "raised_append"}
    /\ \A e \in errors : \A r \in 2..Len(feed) :
          (/\ e.row >= 2
           /\ e.row < r
           /\ CycleOver(e.cycle)
           /\ Submittable(r))
          => \E k \in Calls : placeCalls[k].cycle = e.cycle /\ placeCalls[k].row = r

(***************************************************************************)
(* C8.  No order is placed for a row that violates a validator rule:       *)
(* alphabetic symbol after trimming and upper-casing, nonzero integer      *)
(* quantity, trigger price > 0, both percentages in [0,100].               *)
(***************************************************************************)
C8_OnlyValidRowsPlaced ==
    \A k \in Calls : RuleHoldsOf[HeaderOf][feed[placeCalls[k].row]]

(***************************************************************************)
(* C9.  The order ids passed to placeOrder are strictly increasing over    *)
(* the run, so none is used twice.                                         *)
(***************************************************************************)
C9_IdsStrictlyIncreasing ==
    \A a, b \in Calls : a < b => placeCalls[a].id < placeCalls[b].id

(***************************************************************************)
(* C10.  Every plan built by build_orders has exactly two legs, and the    *)
(* two legs carry the same group id, the same action and the same          *)
(* quantity.                                                               *)
(***************************************************************************)
C10_TwoMatchingLegs ==
    plan # NoPlan =>
        /\ Len(plan.legs) = 2
        /\ plan.legs[1].ocaGroup = plan.legs[2].ocaGroup
        /\ plan.legs[1].action = plan.legs[2].action
        /\ plan.legs[1].totalQuantity = plan.legs[2].totalQuantity
        /\ plan.legs[1].orderType = "TRAIL LIMIT"
        /\ plan.legs[2].orderType = "STP LMT"

C10_Witness ==
    /\ plan # NoPlan
    /\ plan.qty < 0
    /\ plan.legs[2].action = "BUY"
    /\ plan.legs[2].totalQuantity = 5
    /\ pc = "place_stop"

(***************************************************************************)
(* C11.  Group ids are unique per plan: the group id of a plan whose trail *)
(* leg was just placed differs from the group id of the plan submitted     *)
(* before it (another row, or the same row in another cycle).              *)
(***************************************************************************)
C11_GroupIdsUnique ==
    pc \in {"place_stop", "append_live", "append_active"}
        => plan.legs[1].ocaGroup # lastOca

(***************************************************************************)
(* C12.  Plan math.  The reference computation, from the cells of the row  *)
(* (p, trailingPct, stopPct in hundredths, amounts in 1e-6 dollars):       *)
(*   trailAmt = p*trailingPct/100, stopPrice = p*(1 - stopPct/100),        *)
(*   limit offset = triggerPrice - trailAmt - stopPrice,                   *)
(* each rounded to the cent.  Every plan has the trail leg's auxPrice and  *)
(* offset and the stop leg's auxPrice = limitPrice equal to the reference, *)
(* action SELL if qty > 0 else BUY, and quantity |qty|.                    *)
(***************************************************************************)
RefCells(row, hdr) ==
    IF AllCells(row, hdr)
    THEN [q |-> ParseInt(Cell(row, hdr, "qty")),
          p |-> ParseFloat(Cell(row, hdr, "trigger price")),
          a |-> ParseFloat(Cell(row, hdr, "trailing %")),
          b |-> ParseFloat(Cell(row, hdr, "stop %"))]
    ELSE [q |-> ParseError, p |-> ParseError, a |-> ParseError, b |-> ParseError]

RefCellsOf == [h \in Headers |-> [r \in RowPool |-> RefCells(r, h)]]

\* c (cents) is x (1e-6 dollars) rounded to two decimals; nan rounds to nan
IsRounded(nan, x, c) ==
    IF nan THEN c.nan
    ELSE ~c.nan /\ 2 * Abs(x - 10000 * c.v) <= 10000

PlanOfRow == pc \in {"place_trail", "place_stop", "append_live", "append_active"}

C12_PlanMath ==
    PlanOfRow =>
        LET c == RefCellsOf[HeaderOf][feed[i]]
            trailAmt == c.p.v * c.a.v
            stopPrice == c.p.v * (10000 - c.b.v)
            offset == c.p.v * 10000 - trailAmt - stopPrice
            trail == plan.legs[1]
            stop == plan.legs[2]
        IN /\ IsRounded(c.p.nan \/ c.a.nan, trailAmt, trail.auxPrice)
           /\ IsRounded(c.p.nan \/ c.a.nan \/ c.b.nan, offset, trail.lmt)
           /\ IsRounded(c.p.nan \/ c.b.nan, stopPrice, stop.auxPrice)
           /\ stop.lmt = stop.auxPrice
           /\ trail.action = (IF c.q.v > 0 THEN "SELL" ELSE "BUY")
           /\ stop.action = trail.action
           /\ trail.totalQuantity = Abs(c.q.v)
           /\ stop.totalQuantity = Abs(c.q.v)

\* the example p = 100, trailingPct = 5, stopPct = 3: 5.00, 97.00, -2.00
C12_Witness ==
    /\ pc = "place_stop"
    /\ variant = "v3"
    /\ feed[i] = RowSell
    /\ plan.legs[1].auxPrice = Flt(500)
    /\ plan.legs[2].auxPrice = Flt(9700)
    /\ plan.legs[1].lmt = Flt(-200)
    /\ plan.legs[1].action = "SELL"
    /\ plan.legs[1].totalQuantity = 10

(***************************************************************************)
(* C13.  A Filled status event for an order id this program did not place  *)
(* is discarded: no row is appended to the sheet for it and no alert is    *)
(* sent for it.                                                            *)
(***************************************************************************)
C13_UntrackedFillDiscarded ==
    /\ \A m \in 1..Len(live) : live[m].status = "Filled" => live[m].oid \in PlacedIds
    /\ \A k \in 1..Len(alerts) : alerts[k].id \in PlacedIds

(***************************************************************************)
(* C14.  A failed notification call or a failed audit append never         *)
(* escalates: it does not end the polling loop (main is never ended by an  *)
(* append that raised) and it does not leave the orderStatus callback into *)
(* the gateway thread.                                                     *)
(***************************************************************************)
C14_BestEffortNeverEscalates ==
    /\ halt # "raised_append"
    /\ gw # "raised"

(***************************************************************************)
(* C17.  The orderStatus handler never places or cancels an order and      *)
(* leaves the order-id counter alone: a step that handles a status event   *)
(* changes none of placeCalls, cancels, nextOrderId.                       *)
(***************************************************************************)
C17_HandlerPlacesNothing ==
    [][events' # events => UNCHANGED <<placeCalls, cancels, nextOrderId>>]_vars

\* a fill of a placed order was handled: sheet row and alerts, no call
C17_Witness ==
    /\ events = 1
    /\ variant = "v3"
    /\ Len(placeCalls) = 2
    /\ nextOrderId = FirstOrderId + 2
    /\ cancels = <<>>
    /\ \E m \in 1..Len(live) : live[m].status = "Filled" /\ live[m].oid = FirstOrderId
    /\ Len(alerts) = 2

(***************************************************************************)
(* C15.  Shutdown is not interruptible between the two leg submissions:    *)
(* when main has ended on a KeyboardInterrupt, every row whose trail leg   *)
(* was placed has had its stop leg placed or a cancel of the trail leg     *)
(* issued.                                                                 *)
(***************************************************************************)
C15_NoLoneTrailAfterInterrupt ==
    (pc = "done" /\ halt = "interrupt") =>
        \A k \in Calls :
            (placeCalls[k].leg = "trail" /\ placeCalls[k].ok)
            => \/ \E m \in Calls : /\ placeCalls[m].leg = "stop"
                                   /\ placeCalls[m].cycle = placeCalls[k].cycle
                                   /\ placeCalls[m].row = placeCalls[k].row
               \/ CancelsOf(placeCalls[k].id) # {}

(***************************************************************************)
(* C16.  After the cancellation signal (KeyboardInterrupt) is received the *)
(* loop is left, and when main has ended the gateway connection has been   *)
(* closed by disconnect.                                                   *)
(***************************************************************************)
C16_InterruptDisconnects ==
    halt \in {"interrupt", "interrupt_startup"} =>
        /\ pc \in {"finally", "done"}
        /\ pc = "done" => ~connected

(***************************************************************************)
(* C18.  Latch: once an instruction has fired (the legs of its row were    *)
(* submitted and recorded as PLACED), no later sample of the feed makes it *)
(* pending again: run_cycle never again builds a plan for that row.        *)
(***************************************************************************)
C18_Latched ==
    PlanOfRow =>
        ~\E m \in 1..Len(live) :
            live[m].status = "PLACED" /\ live[m].row = i /\ live[m].cycle < cycle

(***************************************************************************)
(* C19.  Submission ordering within one row: the stop leg is placed right  *)
(* after the trail leg of the same row has been placed, with the trail     *)
(* leg's id plus one; a PLACED row (and after it the OCA row) exists only  *)
(* for a row both of whose placeOrder calls returned, and carries the      *)
(* trail leg's id; a row with a failed placeOrder call has no PLACED row.  *)
(***************************************************************************)
SameRow(a, b) == a.cycle = b.cycle /\ a.row = b.row

C19_SubmissionOrder ==
    /\ \A k \in Calls :
          placeCalls[k].leg = "stop" =>
              /\ k > 1
              /\ placeCalls[k - 1].leg = "trail"
              /\ placeCalls[k - 1].ok
              /\ SameRow(placeCalls[k - 1], placeCalls[k])
              /\ placeCalls[k].id = placeCalls[k - 1].id + 1
    /\ \A m \in 1..Len(live) :
          live[m].status = "PLACED" =>
              \E k \in Calls :
                  /\ k > 1
                  /\ placeCalls[k].leg = "stop" /\ placeCalls[k].ok
                  /\ placeCalls[k - 1].ok
                  /\ SameRow(placeCalls[k], live[m])
                  /\ live[m].oid = placeCalls[k - 1].id
    /\ \A n \in 1..Len(active) :
          \E m \in 1..Len(live) : live[m].status = "PLACED" /\ SameRow(live[m], active[n])
    /\ \A k \in Calls :
          ~placeCalls[k].ok =>
              \A m \in 1..Len(live) : ~SameRow(live[m], placeCalls[k])

\* one row submitted and recorded, the stop leg of the next one failed
C19_Witness ==
    /\ Len(live) = 1
    /\ Len(active) = 1
    /\ live[1].oid = FirstOrderId
    /\ Len(placeCalls) = 4
    /\ placeCalls[2].id = FirstOrderId + 1
    /\ ~placeCalls[4].ok
    /\ pc = "sleep"

(***************************************************************************)
(* C20.  Startup connection handling.  v2 and v3: when app.connect fails,  *)
(* main ends without having entered the polling loop and without an order. *)
(* trailing_orders.py: connect_ibkr makes at most 3 connect attempts, it   *)
(* returns True at the first one that succeeds (no attempt follows), and   *)
(* after 3 failures it calls send_alert exactly once and returns False,    *)
(* upon which run returns: no sheet is read and no order is placed.        *)
(***************************************************************************)
ConnectAlerts == {k \in 1..Len(alertCalls) : alertCalls[k].subject = "IBKR Connection Failed"}

EventsOf(id, status) ==
    {k \in 1..Len(handled) : handled[k] = Event(id, status)}

StatusRowsOf(id, status) ==
    {m \in 1..Len(live) : live[m] = StatusRow(id, status)}

AlertsOf(id, to) ==
    {k \in 1..Len(alerts) : alerts[k].id = id /\ alerts[k].to = to}

C21_EveryEventAudited ==
    variant = "v3" =>
        \A id \in PlacedIds :
            /\ \A status \in Statuses :
                  Cardinality(StatusRowsOf(id, status)) = Cardinality(EventsOf(id, status))
            /\ \A to \in {"telegram", "email"} :
                  Cardinality(AlertsOf(id, to)) = Cardinality(EventsOf(id, "Filled"))

(***************************************************************************)
(* C22.  TrailingStopBot.run survives a processing error: the exception of *)
(* get_sheet_data is caught inside the loop, send_alert('Processing        *)
(* Error') is called, run sleeps and the next step after the sleep is the  *)
(* next cycle; the loop is left only by KeyboardInterrupt (a failed        *)
(* connect or init_google_sheets ends run before the loop); and when run   *)
(* has ended the broker connection is closed.                              *)
(***************************************************************************)
BotLoop == {"bot_fetch", "bot_row", "bot_place", "bot_summary", "bot_sleep"}

AlertsWith(subject) == {k \in 1..Len(alertCalls) : alertCalls[k].subject = subject}

C22_Survives ==
    variant = "bot" =>
        /\ \A k \in AlertsWith("Google Sheets Error") :
              k < Len(alertCalls) /\ alertCalls[k + 1].subject = "Processing Error"
        /\ AlertsWith("Processing Error") # {} => halt \in {"none", "interrupt"}
        /\ pc \in BotLoop => (halt = "none" /\ connected)
        /\ halt # "none" =>
              /\ pc \in {"finally", "done"}
              /\ halt \in {"interrupt", "bot_connect_failed", "sys_exit"}
        /\ halt \in {"bot_connect_failed", "sys_exit"} =>
              /\ cycle = 1
              /\ botOrders = <<>>
              /\ AlertsWith("Processing Error") = {}
              /\ AlertsWith("Partial Order Completion") = {}
        /\ pc = "done" => ~connected

\* the step that alerts a processing error ends in the sleep, and the step
\* after the sleep is the next cycle's get_sheet_data, or the interrupt
C22_NextCycle ==
    variant = "bot" =>
        /\ Len(alertCalls') > Len(alertCalls)
              /\ alertCalls'[Len(alertCalls')].subject = "Processing Error"
           => pc' = "bot_sleep"
        /\ pc = "bot_sleep" =>
              \/ pc' = "bot_fetch" /\ cycle' = cycle + 1 /\ halt' = "none"
              \/ pc' = "finally" /\ halt' = "interrupt"

C23_NoOrderBeforeId ==
    variant \in Variants =>
        /\ ~idSent =>
              /\ nextOrderId = NoneId
              /\ pc \in {"connect", "wait_id", "done"}
              /\ placeCalls = <<>>
              /\ live = <<>>
              /\ active = <<>>
        /\ pc \in InTry => (idSent /\ nextOrderId # NoneId)
        /\ \A k \in Calls : placeCalls[k].id >= FirstOrderId

\* the id was delivered, the loop entered, the first leg placed with it
C23_Witness ==
    /\ idSent
    /\ pc = "place_stop"
    /\ cycle = 1
    /\ Len(placeCalls) = 1
    /\ placeCalls[1].id = FirstOrderId
    /\ nextOrderId = FirstOrderId + 1

(***************************************************************************)
(* C24.  Profile isolation in v3_trailing_orders.py: every placeOrder call *)
(* and every row appended by run_cycle belongs to a feed row whose trimmed *)
(* profile cell equals the --profile value; the order-id counter has moved *)
(* by the placed legs of such rows only; and a row of another profile is   *)
(* never validated, so it logs no error either, malformed or not.          *)
(***************************************************************************)
OwnProfile(r) ==
    /\ r \in 2..Len(feed)
    /\ ProfileOf[HeaderOf][feed[r]].ok
    /\ ProfileOf[HeaderOf][feed[r]].s = Profile

PlacedLegs == {k \in Calls : placeCalls[k].ok}

C24_ProfileIsolation ==
    variant = "v3" =>
        /\ \A k \in Calls : OwnProfile(placeCalls[k].row)
        /\ \A m \in 1..Len(live) : OwnProfile(live[m].row)
        /\ \A n \in 1..Len(active) : OwnProfile(active[n].row)
        /\ \A e \in errors : e.row >= 2 => OwnProfile(e.row)
        /\ idSent => nextOrderId = FirstOrderId + Cardinality(PlacedLegs)
        /\ pc \in {"place_trail", "place_stop", "append_live", "append_active"}
              => OwnProfile(i)

\* a cycle over a well-formed row of profile Q and a row of P has ended:
\* two legs, both of the second row
C24_Witness ==
    /\ variant = "v3"
    /\ feed = <<Header, RowForeign, RowSell>>
    /\ pc = "sleep"
    /\ cycle = 1
    /\ Len(placeCalls) = 2
    /\ placeCalls[1].row = 3
    /\ Len(live) = 1
    /\ Len(active) = 1
    /\ errors = {}
    /\ nextOrderId = FirstOrderId + 2

(***************************************************************************)
(* C25.  trailing_orders.py process_orders.  Over the runs of              *)
(* process_orders that reached their end: send_alert('Partial Order        *)
(* Completion') was called once for each run in which fewer orders were    *)
(* placed than the sheet has rows, and for no other; the success count is  *)
(* the number of rows whose placeOrder call returned (a row that fails     *)
(* validate_row or create_order is never placed); and every row that       *)
(* passes both was placed unless its own placeOrder call raised, whatever  *)
(* happened to the rows before it.                                         *)
(***************************************************************************)
BotPlaced(c) ==
    {r \in 1..Len(records) :
        \E k \in 1..Len(botOrders) : botOrders[k].cycle = c /\ botOrders[k].row = r}

BotPlaceable ==
    {r \in 1..Len(records) : BotValidOf[records[r]] /\ BotOrderOf[records[r]].ok}

PartialRuns ==
    {k \in 1..Len(summaries) :
        Cardinality(BotPlaced(summaries[k].cycle)) < Len(records)}

C25_PartialAlert ==
    variant = "bot" =>
        /\ Cardinality(AlertsWith("Partial Order Completion")) = Cardinality(PartialRuns)
        /\ \A k \in 1..Len(summaries) :
              /\ summaries[k].succeeded = Cardinality(BotPlaced(summaries[k].cycle))
              /\ BotPlaced(summaries[k].cycle) \subseteq BotPlaceable
              /\ Cardinality(BotPlaceable \ BotPlaced(summaries[k].cycle)) <= faults
        /\ \A k \in 1..Len(botOrders) :
              /\ botOrders[k].row \in BotPlaceable
              /\ \A m \in 1..Len(botOrders) :
                    (m # k /\ botOrders[m].cycle = botOrders[k].cycle)
                    => botOrders[m].row # botOrders[k].row

\* the placeOrder of the first row raised, the second row was placed, and
\* the run ended with the alert
C25_Witness ==
    /\ variant = "bot"
    /\ records = <<RecSell, RecBuy>>
    /\ pc = "bot_sleep"
    /\ cycle = 1
    /\ Len(botOrders) = 1
    /\ botOrders[1].row = 2
    /\ summaries = <<[cycle |-> 1, succeeded |-> 1, failed |-> 1]>>
    /\ alertCalls = <<AlertCall("Partial Order Completion", TRUE)>>

====
